---- MODULE Spec2Model ----
(***************************************************************************)
(* Model of the Revrag voice agent (src/src/revrag_voice_ai/agent.py):     *)
(*   - EchoAgent.llm_node, the text-generation stage that echoes the last  *)
(*     user message of the chat context;                                   *)
(*   - the user_state_changed handler of entrypoint, which plays the idle  *)
(*     reminder guarded by the _reminder_sent flag.                        *)
(* Texts are sequences of one-character strings so that concatenation,     *)
(* trimming and comparison are computed, not assumed.                      *)
(***************************************************************************)
EXTENDS Integers, Sequences, FiniteSets, TLC

\* ------------------------------------------------------------------------
\* Bounds of the model
\* ------------------------------------------------------------------------
MaxLen == 3

MaxMsgs == 3

MaxLog == 8

NumSources == 2

MaxStepLog == 6

\* ------------------------------------------------------------------------
\* Texts
\* ------------------------------------------------------------------------
Whitespace == {" "}

Chars == {" ", "a"}

Texts == UNION {[1..n -> Chars] : n \in 0..MaxLen}

\* Python's None as the text_content of a message without text.
NoneText == <<"None">>

\* No utterance has been finalized yet.
NoUtterance == <<"NoUtterance">>

SILENCE_REMINDER_TEXT == <<"I", "'", "m", " ", "h", "e", "r", "e", " ", "w", "h", "e", "n", " ", "y", "o", "u", "'", "r", "e", " ", "r", "e", "a", "d", "y", ".">>

\* str.strip() on the whitespace of the alphabet.
RECURSIVE LStrip(_)
LStrip(s) == IF s # <<>> /\ Head(s) \in Whitespace THEN LStrip(Tail(s)) ELSE s

RECURSIVE RStrip(_)
RStrip(s) ==
    IF s # <<>> /\ s[Len(s)] \in Whitespace
    THEN RStrip(SubSeq(s, 1, Len(s) - 1))
    ELSE s

Trim(s) == RStrip(LStrip(s))

\* The literal part of the f-string of llm_node.
Prefix == <<"Y", "o", "u", " ", "s", "a", "i", "d", ":", " ">>

\* ------------------------------------------------------------------------
\* Chat context and EchoAgent.llm_node
\* ------------------------------------------------------------------------
Roles == {"user", "assistant"}

Messages == [role : Roles, text_content : Texts \cup {NoneText}]

Histories == UNION {[1..n -> Messages] : n \in 0..MaxMsgs}

\* Mutant: the "or" is missing and None is formatted by the f-string.
TextOrNone(t) == IF t = NoneText THEN <<"N", "o", "n", "e">> ELSE t

\* msg.text_content or "": a falsy text (None or "") becomes "".
TextOrEmpty(t) == IF t = NoneText \/ t = <<>> THEN <<>> ELSE t

\* for msg in reversed(messages): if msg.role == "user": ...; break
\* i is the position the reversed iteration has reached; 0 is exhaustion,
\* where last_user_text keeps its initial value "".
RECURSIVE ScanReversed(_, _)
ScanReversed(msgs, i) ==
    IF i = 0 THEN <<>>
    ELSE IF msgs[i].role = "user" THEN TextOrEmpty(msgs[i].text_content)
    ELSE ScanReversed(msgs, i - 1)

RECURSIVE ScanForward(_, _)
ScanForward(msgs, i) ==
    IF i > Len(msgs) THEN <<>>
    ELSE IF msgs[i].role = "user" THEN TextOrEmpty(msgs[i].text_content)
    ELSE ScanForward(msgs, i + 1)

\* Mutant: the first user message instead of the last.
first_user_text(msgs) == ScanForward(msgs, 1)

\* Mutant: the last message whatever its role.
last_message_text(msgs) ==
    IF msgs = <<>> THEN <<>> ELSE TextOrEmpty(msgs[Len(msgs)].text_content)

last_user_text(msgs) == ScanReversed(msgs, Len(msgs))

\* Mutant: the text is stripped before it is formatted.
llm_node_stripped(ctx) == Prefix \o Trim(last_user_text(ctx))

llm_node(ctx) == Prefix \o last_user_text(ctx)

\* ------------------------------------------------------------------------
\* State
\* ------------------------------------------------------------------------
VARIABLES
    reminder_sent,  \* the _reminder_sent flag of entrypoint
    log,            \* events delivered and Speak requests made, in order
    chat_ctx,       \* the chat context handed to llm_node
    utterance,      \* text of the utterance finalized last, or NoUtterance
    spoken,         \* Speak requests of the latest text-generation turn
    pc,             \* position of each event source's callback
    ev              \* new_state of the event each callback is handling

vars == <<reminder_sent, log, chat_ctx, utterance, spoken, pc, ev>>

UserStates == {"speaking", "listening", "away"}

AgentStates == {"listening", "speaking"}

Sources == 1..NumSources

Event(kind, st) == [kind |-> kind, arg |-> st]

Say(text) == [kind |-> "say", arg |-> text]

echoVars == <<chat_ctx, utterance, spoken>>

stepVars == <<pc, ev>>

InitHandler ==
    /\ reminder_sent = FALSE
    /\ log = <<>>
    /\ pc = [s \in Sources |-> "idle"]
    /\ ev = [s \in Sources |-> "listening"]

InitEcho ==
    /\ chat_ctx = <<>>
    /\ utterance = NoUtterance
    /\ spoken = <<>>

\* ------------------------------------------------------------------------
\* The user_state_changed handler, run to completion per event
\* ------------------------------------------------------------------------
\* The handler's effect on the flag and the Speak requests it makes.
\* Mutant: the flag is never cleared.
NextReminderSentNoReset(new_state, sent) ==
    IF new_state = "away" /\ ~sent THEN TRUE ELSE sent

\* Mutant: every state other than 'away' clears the flag.
NextReminderSentElseReset(new_state, sent) ==
    IF new_state = "away" /\ ~sent THEN TRUE
    ELSE IF new_state = "away" THEN sent
    ELSE FALSE

NextReminderSent(new_state, sent) ==
    IF new_state = "away" /\ ~sent THEN TRUE
    ELSE IF new_state = "speaking" THEN FALSE
    ELSE sent

\* Mutant: the reminder is played without testing the flag.
HandlerSaysUnguarded(new_state, sent) ==
    IF new_state = "away" THEN <<Say(SILENCE_REMINDER_TEXT)>> ELSE <<>>

HandlerSays(new_state, sent) ==
    IF new_state = "away" /\ ~sent THEN <<Say(SILENCE_REMINDER_TEXT)>> ELSE <<>>

on_user_state_changed(new_state) ==
    /\ Len(log) + 2 <= MaxLog
    /\ log' = log \o <<Event("user_state_changed", new_state)>>
                  \o HandlerSays(new_state, reminder_sent)
    /\ reminder_sent' = NextReminderSent(new_state, reminder_sent)
    /\ UNCHANGED <<echoVars, stepVars>>

\* agent_state_changed is emitted by the session as well; entrypoint
\* registers no handler for it.
on_agent_state_changed(new_state) ==
    /\ Len(log) + 2 <= MaxLog
    /\ log' = Append(log, Event("agent_state_changed", new_state))
    /\ UNCHANGED <<reminder_sent, echoVars, stepVars>>

UserStateChanged == \E st \in UserStates : on_user_state_changed(st)

AgentStateChanged == \E st \in AgentStates : on_agent_state_changed(st)

\* ------------------------------------------------------------------------
\* The text-generation stage
\* ------------------------------------------------------------------------
\* llm_node on the chat context as it stands; its return value is handed
\* to the TTS node as one Speak request.
GenerateReply ==
    /\ spoken' = <<llm_node(chat_ctx)>>
    /\ utterance' = NoUtterance
    /\ UNCHANGED <<chat_ctx, reminder_sent, log, stepVars>>

\* A finalized user utterance is committed to the chat context as a user
\* message and llm_node generates the reply to it.
UtteranceFinalized(text) ==
    /\ Len(chat_ctx) < MaxMsgs
    /\ chat_ctx' = Append(chat_ctx, [role |-> "user", text_content |-> text])
    /\ spoken' = <<llm_node(chat_ctx')>>
    /\ utterance' = text
    /\ UNCHANGED <<reminder_sent, log, stepVars>>

FinalizeUtterance == \E text \in Texts \cup {NoneText} : UtteranceFinalized(text)

Init == InitHandler /\ InitEcho

InitAnyHistory ==
    /\ InitHandler
    /\ chat_ctx \in Histories
    /\ utterance = NoUtterance
    /\ spoken = <<>>

NextEcho == FinalizeUtterance \/ GenerateReply

SpecEcho == InitAnyHistory /\ [][NextEcho]_vars

\* ------------------------------------------------------------------------
\* The handler statement by statement, one callback per event source
\* ------------------------------------------------------------------------
\* Mutant: callbacks of different sources run concurrently.
Concurrent(s) == TRUE

\* _on_user_state_changed is a plain (non-async) function without await:
\* the emitter runs it to completion on the event loop before any other
\* callback starts.
Serialized(s) == \A o \in Sources \ {s} : pc[o] = "idle"

\* Source s emits user_state_changed(new_state) and its callback starts.
Deliver(s, new_state) ==
    /\ pc[s] = "idle"
    /\ Serialized(s)
    /\ Len(log) + 2 <= MaxStepLog
    /\ pc' = [pc EXCEPT ![s] = "test"]
    /\ ev' = [ev EXCEPT ![s] = new_state]
    /\ log' = Append(log, Event("user_state_changed", new_state))
    /\ UNCHANGED <<reminder_sent, echoVars>>

\* if ev.new_state == "away" and not _reminder_sent: ... elif "speaking": ...
TestGuard(s) ==
    /\ pc[s] = "test"
    /\ pc' = [pc EXCEPT ![s] =
                IF ev[s] = "away" /\ ~reminder_sent THEN "set"
                ELSE IF ev[s] = "speaking" THEN "clear"
                ELSE "idle"]
    /\ UNCHANGED <<reminder_sent, log, ev, echoVars>>

\* _reminder_sent = True
SetFlag(s) ==
    /\ pc[s] = "set"
    /\ reminder_sent' = TRUE
    /\ pc' = [pc EXCEPT ![s] = "say"]
    /\ UNCHANGED <<log, ev, echoVars>>

\* session.say(SILENCE_REMINDER_TEXT, allow_interruptions=True)
CallSay(s) ==
    /\ pc[s] = "say"
    /\ log' = Append(log, Say(SILENCE_REMINDER_TEXT))
    /\ pc' = [pc EXCEPT ![s] = "idle"]
    /\ UNCHANGED <<reminder_sent, ev, echoVars>>

\* _reminder_sent = False
ClearFlag(s) ==
    /\ pc[s] = "clear"
    /\ reminder_sent' = FALSE
    /\ pc' = [pc EXCEPT ![s] = "idle"]
    /\ UNCHANGED <<log, ev, echoVars>>

DeliverAny == \E s \in Sources, st \in UserStates : Deliver(s, st)

TestGuardAny == \E s \in Sources : TestGuard(s)

SetFlagAny == \E s \in Sources : SetFlag(s)

CallSayAny == \E s \in Sources : CallSay(s)

ClearFlagAny == \E s \in Sources : ClearFlag(s)

NextSteps == DeliverAny \/ TestGuardAny \/ SetFlagAny \/ CallSayAny \/ ClearFlagAny

SpecSteps == Init /\ [][NextSteps]_vars

Next == UserStateChanged \/ AgentStateChanged

Spec == Init /\ [][Next]_vars

\* ------------------------------------------------------------------------
\* Reading the log
\* ------------------------------------------------------------------------
IsUserEvent(e, st) == e.kind = "user_state_changed" /\ e.arg = st

IsReminder(e) == e.kind = "say" /\ e.arg = SILENCE_REMINDER_TEXT

\* Positions of the 'speaking' notifications, which delimit idle windows.
SpeakingAt(l) == {i \in 1..Len(l) : IsUserEvent(l[i], "speaking")}

\* Window b is the stretch of the log after boundary b (0 is the start)
\* up to the next 'speaking' notification.
WindowEnd(l, b) ==
    IF \E i \in SpeakingAt(l) : i > b
    THEN (CHOOSE i \in SpeakingAt(l) : i > b /\ \A j \in SpeakingAt(l) : j > b => i <= j) - 1
    ELSE Len(l)

WindowIdx(l, b) == (b + 1)..WindowEnd(l, b)

AwaysIn(l, b) == {i \in WindowIdx(l, b) : IsUserEvent(l[i], "away")}

RemindersIn(l, b) == {i \in WindowIdx(l, b) : IsReminder(l[i])}

LastBoundary(l) ==
    IF SpeakingAt(l) = {} THEN 0
    ELSE CHOOSE i \in SpeakingAt(l) : \A j \in SpeakingAt(l) : j <= i

\* In window b the reminder is requested exactly once, right after the
\* window's first 'away', and never without an 'away'.
OneReminderIn(l, b) ==
    IF AwaysIn(l, b) = {}
    THEN RemindersIn(l, b) = {}
    ELSE LET first == CHOOSE i \in AwaysIn(l, b) : \A j \in AwaysIn(l, b) : i <= j
         IN  RemindersIn(l, b) = {first + 1}

\* C1: starting from the initial state, the first change of the user state
\* to 'away' issues exactly one Speak(reminder text), and no further reminder
\* is issued before a 'speaking' change, however many notifications
\* (repeated 'away' included) are delivered.
C1_OncePerIdleWindow == OneReminderIn(log, 0)

C1_Witness ==
    /\ SpeakingAt(log) = {}
    /\ Cardinality(AwaysIn(log, 0)) >= 3
    /\ Cardinality(RemindersIn(log, 0)) = 1

\* C2: after a reminder and a following 'speaking' change, the next change to
\* 'away' issues exactly one more Speak(reminder text), for every number of
\* successive idle windows; the number of reminders is the number of idle
\* windows (the first, and those preceded by user speech).
IdleWindows(l) == {b \in SpeakingAt(l) \cup {0} : AwaysIn(l, b) # {}}

C2_ReminderRearms ==
    /\ \A b \in SpeakingAt(log) : OneReminderIn(log, b)
    /\ Cardinality({i \in 1..Len(log) : IsReminder(log[i])})
          = Cardinality(IdleWindows(log))

C2_Witness ==
    /\ Cardinality(IdleWindows(log)) >= 3
    /\ \E b \in SpeakingAt(log) : b > 1 /\ IsReminder(log[b - 1])
                                   /\ RemindersIn(log, b) # {}

\* C10: the guard flag is true exactly when a reminder has been issued since
\* the last 'speaking' change (false initially); a notification other than a
\* user-state change to 'away' or 'speaking' leaves the flag alone and issues
\* no Speak, so away -> listening -> away issues one reminder, and agent
\* speech never re-arms the reminder.
FlagMatchesWindow == reminder_sent = (RemindersIn(log, LastBoundary(log)) # {})

OtherNotification ==
    /\ Len(log') > Len(log)
    /\ LET e == log'[Len(log) + 1]
       IN  ~IsUserEvent(e, "away") /\ ~IsUserEvent(e, "speaking")

FrameOfOther ==
    OtherNotification =>
        /\ reminder_sent' = reminder_sent
        /\ Len(log') = Len(log) + 1

C10_GuardInvariantAndFrame == [](FlagMatchesWindow) /\ [][FrameOfOther]_vars

C10_Witness ==
    LET b == LastBoundary(log)
    IN  /\ \E i, j, k \in WindowIdx(log, b) :
            /\ i < j /\ j < k
            /\ IsUserEvent(log[i], "away")
            /\ IsUserEvent(log[j], "listening")
            /\ IsUserEvent(log[k], "away")
        /\ \E a \in WindowIdx(log, b) :
            log[a] = Event("agent_state_changed", "speaking")
        /\ Cardinality(RemindersIn(log, b)) = 1
        /\ reminder_sent

\* ------------------------------------------------------------------------
\* Echo claims
\* ------------------------------------------------------------------------
Fallback == <<"I", " ", "d", "i", "d", "n", "'", "t", " ", "c", "a", "t", "c", "h", " ", "t", "h", "a", "t", ".", " ", "C", "o", "u", "l", "d", " ", "y", "o", "u", " ", "r", "e", "p", "e", "a", "t", " ", "y", "o", "u", "r", "s", "e", "l", "f", "?">>

Finalized == utterance # NoUtterance

\* empty, whitespace-only or missing text
TrimmedEmpty(t) == t = NoneText \/ Trim(t) = <<>>

\* C3: for every non-empty string s, finalizing a user utterance with text s
\* yields exactly one Speak whose text is "You said: " followed by s.
C3_EchoCorrectness ==
    (Finalized /\ utterance # NoneText /\ utterance # <<>>)
        => spoken = <<Prefix \o utterance>>

C3_Witness ==
    /\ Finalized /\ utterance # NoneText /\ utterance # <<>>
    /\ Len(chat_ctx) >= 2
    /\ chat_ctx[1].role = "user"
    /\ TextOrEmpty(chat_ctx[1].text_content) # utterance
    /\ Len(spoken) = 1

C7_Original_Trimmed ==
    (Finalized /\ ~TrimmedEmpty(utterance))
        => spoken = <<Prefix \o Trim(utterance)>>

\* C7 as amended: for a finalized text t with non-empty trimmed form the
\* Speak text is "You said: " followed by t verbatim, leading and trailing
\* whitespace kept.
C7_EchoVerbatim ==
    (Finalized /\ ~TrimmedEmpty(utterance))
        => /\ Len(spoken) = 1
           /\ SubSeq(spoken[1], 1, Len(Prefix)) = Prefix
           /\ SubSeq(spoken[1], Len(Prefix) + 1, Len(spoken[1])) = utterance
           /\ (Trim(utterance) # utterance => spoken # <<Prefix \o Trim(utterance)>>)

C7_Witness ==
    /\ Finalized
    /\ utterance = <<" ", "a", " ">>
    /\ spoken = <<Prefix \o <<" ", "a", " ">> >>

\* C8: for every conversation history the echo is built from the text of the
\* last message whose role is 'user', whatever follows or precedes it; with
\* no user message the text part is empty.
UserIdx(h) == {i \in 1..Len(h) : h[i].role = "user"}

TextOfLastUser(h) ==
    IF UserIdx(h) = {} THEN <<>>
    ELSE LET i == CHOOSE k \in UserIdx(h) : \A j \in UserIdx(h) : j <= k
         IN  IF h[i].text_content = NoneText THEN <<>> ELSE h[i].text_content

C8_MostRecentUserOnly ==
    spoken # <<>> => spoken = <<Prefix \o TextOfLastUser(chat_ctx)>>

C8_Witness ==
    /\ Len(chat_ctx) = 3
    /\ chat_ctx[1].role = "user"
    /\ chat_ctx[2].role = "user"
    /\ chat_ctx[3].role = "assistant"
    /\ TextOfLastUser(chat_ctx) # <<>>
    /\ TextOrEmpty(chat_ctx[1].text_content) # TextOfLastUser(chat_ctx)
    /\ TextOrEmpty(chat_ctx[3].text_content) # TextOfLastUser(chat_ctx)
    /\ spoken = <<Prefix \o TextOfLastUser(chat_ctx)>>

\* ------------------------------------------------------------------------
\* Serialization claim
\* ------------------------------------------------------------------------
Running == {s \in Sources : pc[s] # "idle"}

\* C9: each user-state-change event is handled atomically (guard test, guard
\* update and Speak request without another callback in between), so under
\* any interleaving of event sources no idle window gets two reminders.
C9_SerializedHandling ==
    /\ Cardinality(Running) <= 1
    /\ \A b \in SpeakingAt(log) \cup {0} : Cardinality(RemindersIn(log, b)) <= 1

C9_Witness ==
    /\ Running = {}
    /\ \A s \in Sources : ev[s] = "away"
    /\ LET b == LastBoundary(log)
       IN  /\ b > 0
           /\ Cardinality(AwaysIn(log, b)) >= 2
           /\ Cardinality(RemindersIn(log, b)) = 1

====
